---- MODULE Spec2Model ----
(***************************************************************************)
(* The task API of TASK-MASTER: the JWT dependency get_current_user and    *)
(* the owner-scoped task queries, as the backend design documents give     *)
(* them (specs/002-todo-backend/research.md section 1, the data model's    *)
(* query patterns, BETTER_AUTH_JWT_STATUS.md section 6).                   *)
(*                                                                         *)
(* One action is one HTTP request run to completion: the dependency        *)
(* get_current_user, then the construction of the request model            *)
(* (TaskCreate / TaskUpdate / TaskPatch, whose validators run when the     *)
(* model is built, before the handler body reads task_data), then the      *)
(* handler body.                                                           *)
(*                                                                         *)
(* The frontend (frontend/src/lib/auth.ts, api-client.ts and               *)
(* app/dashboard/page.tsx) is modelled beside it: the browser's storage    *)
(* and location, the API client's calls and the dashboard's React state,   *)
(* with the server's and Better Auth's answers as inputs.                  *)
(***************************************************************************)
EXTENDS Integers, Sequences, FiniteSets, TLC

VARIABLES
    tasks,      \* the rows of table tasks
    nextId,     \* the next primary key uuid4 / gen_random_uuid hands out
    now,        \* datetime.utcnow(), in whole seconds
    deleted,    \* history: id -> owner of every row a DELETE has removed
    req,        \* the last request received
    resp,       \* the response to it
    sql,        \* the statements that request sent to the database
    inflight,   \* per worker: the PATCH or PUT it is serving and the row it loaded
    browser,    \* the browser: window.location, localStorage, Better Auth session
    call,       \* the last call of the frontend's auth library or API client
    dashboard   \* the React state of DashboardPage and its pending requests

frontend == <<browser, call, dashboard>>

vars == <<tasks, nextId, now, deleted, req, resp, sql, inflight,
          browser, call, dashboard>>

----------------------------------------------------------------------------
(* Bounds of the model *)

MaxTasks == 2       \* rows ever inserted
MaxTime  == 2       \* the clock runs 0..MaxTime

(* Program constants *)

MIN_TITLE_LENGTH == 1
MAX_TITLE_LENGTH == 500

SECRET_KEY == "secret"          \* os.getenv("SECRET_KEY")
Keys       == {SECRET_KEY, "other"}

Users == {"u1", "u2"}           \* the rows of table users (kept by Better Auth)
None  == "None"                 \* Python's None where a user id is expected

----------------------------------------------------------------------------
(* Titles.  A string is represented by its shape: the number of leading    *)
(* whitespace characters, the length of what str.strip() keeps, and the    *)
(* number of trailing whitespace characters.  A whitespace-only string has *)
(* body 0 and all its characters counted in lead.                          *)

Title(l, b, t) == [lead |-> l, body |-> b, trail |-> t]

len(v) == v.lead + v.body + v.trail

strip(v) == Title(0, v.body, 0)

TitleInputs ==
    { Title(0, 0, 0),                           \* ""
      Title(1, 0, 0),                           \* " "
      Title(0, 1, 0),                           \* "a"
      Title(2, 1, 2),                           \* "  a  "
      Title(0, MAX_TITLE_LENGTH, 0),            \* 500 characters
      Title(0, MAX_TITLE_LENGTH + 1, 0),        \* 501 characters
      Title(1, MAX_TITLE_LENGTH - 1, 1) }       \* " " + 499 characters + " "

StatusInputs == {"pending", "completed", "archived"}

----------------------------------------------------------------------------
(* Tokens.  HS256 is modelled as a tag that names the signed message and   *)
(* the key: two tags are equal exactly when message and key are.           *)

Payload(s, e, w) == [sub |-> s, exp |-> e, wellformed |-> w]

HS256(msg, key) == [msg |-> msg, key |-> key]

Token(p, sig) == [payload |-> p, signature |-> sig]

Ghost == "u3"                   \* a subject with no row in table users
Empty == ""                     \* a sub claim that is the empty string

Subs == Users \cup {Ghost, Empty, None}
Exps == {0 - 1, 1, MaxTime + 1}

Payloads == {Payload(s, e, w) : s \in Subs, e \in Exps, w \in {TRUE}}
            \cup {Payload(None, 1, FALSE)}      \* claims that do not parse

(* create_access_token: what the issuer signs *)
create_access_token(user_id, exp) ==
    LET payload == Payload(user_id, exp, TRUE)
    IN  Token(payload, HS256(payload, SECRET_KEY))

Tokens == {Token(p, HS256(q, k)) : p \in Payloads,
                                   q \in {x \in Payloads : x.wellformed},
                                   k \in Keys}

Header(prefix, token) == [prefix |-> prefix, token |-> token, present |-> TRUE]

NoHeader ==
    [prefix |-> "", token |-> create_access_token(None, 1),
     present |-> FALSE]

AllHeaders == {NoHeader} \cup {Header(x, t) : x \in {"Bearer ", "Basic "}, t \in Tokens}

----------------------------------------------------------------------------
(* jose.jwt.decode(token, key, algorithms=["HS256"]): the claims, or        *)
(* JWTError.  It checks the signature over the token's payload, parses the *)
(* claims and validates exp; python-jose raises ExpiredSignatureError (a   *)
(* JWTError) when exp < now, with no leeway.  A missing sub is no error.   *)

JWTError == [ok |-> FALSE, claims |-> Payload(None, 1, FALSE)]

decode_unsigned(token, key, t) ==
    IF ~token.payload.wellformed THEN JWTError
    ELSE IF token.payload.exp < t THEN JWTError
    ELSE [ok |-> TRUE, claims |-> token.payload]

decode_noexp(token, key, t) ==
    IF token.signature # HS256(token.payload, key) THEN JWTError
    ELSE IF ~token.payload.wellformed THEN JWTError
    ELSE [ok |-> TRUE, claims |-> token.payload]

decode(token, key, t) ==
    IF token.signature # HS256(token.payload, key) THEN JWTError
    ELSE IF ~token.payload.wellformed THEN JWTError
    ELSE IF token.payload.exp < t THEN JWTError
    ELSE [ok |-> TRUE, claims |-> token.payload]

(* HTTPException(status_code, detail) raised by the dependency, or the     *)
(* value it returns.                                                       *)
Rejected(status, detail) ==
    [user_id |-> None, ok |-> FALSE, status |-> status, detail |-> detail]

Returned(user_id) ==
    [user_id |-> user_id, ok |-> TRUE, status |-> 200, detail |-> ""]

get_current_user_lookup(authorization, t) ==
    IF ~authorization.present \/ authorization.prefix # "Bearer "
    THEN Rejected(401, "Not authenticated")
    ELSE LET r == decode(authorization.token, SECRET_KEY, t)
         IN  IF ~r.ok THEN Rejected(401, "Invalid token")
             ELSE IF r.claims.sub = None THEN Rejected(401, "Invalid token")
             ELSE IF r.claims.sub \notin Users
             THEN Rejected(401, "User not found")
             ELSE Returned(r.claims.sub)

get_current_user_verbose(authorization, t) ==
    IF ~authorization.present \/ authorization.prefix # "Bearer "
    THEN Rejected(401, "Not authenticated")
    ELSE LET r == decode(authorization.token, SECRET_KEY, t)
         IN  IF r.ok THEN Returned(r.claims.sub)
             ELSE IF decode_noexp(authorization.token, SECRET_KEY, t).ok
             THEN Rejected(401, "Token expired")
             ELSE Rejected(401, "Invalid token")

get_current_user(authorization, t) ==
    IF ~authorization.present \/ authorization.prefix # "Bearer "
    THEN Rejected(401, "Not authenticated")
    ELSE LET r == decode(authorization.token, SECRET_KEY, t)
         IN  IF r.ok THEN Returned(r.claims.sub)      \* payload.get("sub")
             ELSE Rejected(401, "Invalid token")

----------------------------------------------------------------------------
(* The request models *)

Invalid == [ok |-> FALSE, title |-> Title(0, 0, 0)]

title_unchecked(v) == [ok |-> TRUE, title |-> strip(v)]

(* Field(..., min_length=1, max_length=500) is checked on the value as     *)
(* received; the validator title_not_empty then strips it.                 *)
title_not_empty(v) ==
    IF strip(v).body = 0 THEN Invalid
    ELSE [ok |-> TRUE, title |-> strip(v)]

TaskCreate(title) ==
    IF len(title) < MIN_TITLE_LENGTH \/ len(title) > MAX_TITLE_LENGTH
    THEN Invalid
    ELSE title_not_empty(title)

TaskUpdate(title) ==
    IF len(title) < MIN_TITLE_LENGTH \/ len(title) > MAX_TITLE_LENGTH
    THEN Invalid
    ELSE title_not_empty(title)

(* status: Literal["pending", "completed"] *)
TaskPatch_any(status) == [ok |-> TRUE, status |-> status]

TaskPatch(status) == [ok |-> status \in {"pending", "completed"}, status |-> status]

----------------------------------------------------------------------------
(* The table and its queries *)

Task(id, title, status, user_id, created_at, updated_at) ==
    [user_id |-> user_id, status |-> status, title |-> title, id |-> id,
     created_at |-> created_at, updated_at |-> updated_at]

ids(rows) == {t.id : t \in rows}

SelectByUser_all(rows, current_user_id) == rows

(* select(Task).where(Task.user_id == current_user_id) *)
SelectByUser(rows, current_user_id) ==
    {t \in rows : t.user_id = current_user_id}

(* .order_by(Task.created_at.desc()).all(): every order the database may   *)
(* return, rows with equal created_at in either order.                     *)
OrderByCreatedDesc_unordered(rows) ==
    {s \in [1..Cardinality(rows) -> rows] :
        \A i, j \in 1..Cardinality(rows) : i # j => s[i] # s[j]}

OrderByCreatedDesc(rows) ==
    {s \in [1..Cardinality(rows) -> rows] :
        /\ \A i, j \in 1..Cardinality(rows) : i # j => s[i] # s[j]
        /\ \A i, j \in 1..Cardinality(rows) :
              i < j => s[i].created_at >= s[j].created_at}

SelectOwned_any(rows, task_id, current_user_id) ==
    {t \in rows : t.id = task_id}

(* select(Task).where(Task.id == task_id, Task.user_id == current_user_id) *)
SelectOwned(rows, task_id, current_user_id) ==
    {t \in rows : t.id = task_id /\ t.user_id = current_user_id}

(* user_id: NOT NULL, FOREIGN KEY(users.id) *)
InsertAllowed(row) == row.user_id # None /\ row.user_id \in Users

----------------------------------------------------------------------------
(* Requests and responses *)

Req(op, authorization, id, title, status, user_id) ==
    [user_id |-> user_id, status |-> status, authorization |-> authorization,
     title |-> title, id |-> id, op |-> op, at |-> now]

Response(status, detail, body) ==
    [body |-> body, status |-> status, detail |-> detail]

Kind(r) ==
    CASE r.status \in {200, 201} -> "Ok"
      [] r.status = 401 -> "Unauthenticated"
      [] r.status = 403 -> "Forbidden"
      [] r.status = 404 -> "NotFound"
      [] r.status = 422 -> "ValidationError"
      [] OTHER -> "InternalError"

NoTitle == Title(0, 0, 0)
NoReq   == Req("none", NoHeader, 0, NoTitle, "pending", None)

TaskIds == 1..MaxTasks

(* Credentials the task endpoints are exercised with: valid ones for     *)
(* each subject, and one of each way a header can fail.                    *)
Bearer(user_id) == Header("Bearer ", create_access_token(user_id, MaxTime + 1))

OwnerCredentials == {Bearer("u1"), Bearer("u2")}

NoSubject == Bearer(None)

FailingCredentials ==
    { NoHeader,
      Header("Basic ", create_access_token("u1", MaxTime + 1)),
      Header("Bearer ", create_access_token("u1", 0 - 1)),
      Header("Bearer ", Token(Payload("u1", MaxTime + 1, TRUE),
                              HS256(Payload("u1", MaxTime + 1, TRUE), "other"))),
      Header("Bearer ", Token(Payload("u1", MaxTime + 1, TRUE),
                              HS256(Payload("u2", MaxTime + 1, TRUE), SECRET_KEY))),
      NoSubject }

----------------------------------------------------------------------------
(* The handler bodies, as functions of the table *)

(* Task(title=task_data.title, user_id=current_user_id,                    *)
(*      status=TaskStatus.PENDING): id, created_at and updated_at come     *)
(* from the default factories.  TaskCreate has no field but title: an      *)
(* owner sent in the body is dropped when the request model is built.      *)
new_task_supplied(title, current_user_id, supplied_user_id, id, t) ==
    Task(id, title, "pending",
         IF supplied_user_id # None THEN supplied_user_id ELSE current_user_id,
         t, t)

new_task(title, current_user_id, supplied_user_id, id, t) ==
    Task(id, title, "pending", current_user_id, t, t)

(* session.add(task); session.commit() of a loaded row: the ORM emits an   *)
(* UPDATE, and with it onupdate=datetime.utcnow, only when an attribute    *)
(* differs from the loaded value.                                          *)
Flush_recreated(old, new, t) ==
    IF new = old THEN old ELSE [new EXCEPT !.updated_at = t, !.created_at = t]

Flush(old, new, t) ==
    IF new = old THEN old ELSE [new EXCEPT !.updated_at = t]

(* task.title = task_data.title *)
set_title_reset(rows, task, title, t) ==
    (rows \ {task}) \cup
        {Flush(task, [task EXCEPT !.title = title, !.status = "pending"], t)}

set_title(rows, task, title, t) ==
    (rows \ {task}) \cup {Flush(task, [task EXCEPT !.title = title], t)}

(* task.status = data.status *)
set_status_toggled(rows, task, status, t) ==
    (rows \ {task}) \cup
        {Flush(task, [task EXCEPT !.status = IF task.status = "pending"
                                            THEN "completed"
                                            ELSE "pending"], t)}

set_status(rows, task, status, t) ==
    (rows \ {task}) \cup {Flush(task, [task EXCEPT !.status = status], t)}

(* session.delete(task); session.commit() *)
delete_soft(rows, task) == rows

delete_row(rows, task) == rows \ {task}

----------------------------------------------------------------------------
(* The state machine *)

(* A worker's SQLAlchemy session while it serves a PATCH or a PUT: the row *)
(* it loaded and the status or the title the request carries (title is     *)
(* NoTitle in a PATCH).  wrote and overlapped are history: whether its     *)
(* commit sent an UPDATE, and whether another worker held a loaded row     *)
(* when this one loaded its own.                                           *)
Workers == {"w1", "w2"}

Session(stage, authorization, task, status, wrote, overlapped) ==
    [status |-> status, authorization |-> authorization, title |-> NoTitle,
     task |-> task, stage |-> stage, wrote |-> wrote,
     overlapped |-> overlapped]

Idle == Session("idle", NoHeader, Task(0, NoTitle, "pending", None, 0, 0),
                "pending", FALSE, FALSE)

(* The flush of task.status = status in a session that loaded `loaded`:    *)
(* no statement when the value is the loaded one, else                     *)
(* UPDATE tasks SET status = ?, updated_at = ? WHERE id = ?                *)
write_status_loaded(rows, loaded, status, t) ==
    IF status = loaded.status THEN rows
    ELSE {IF r.id = loaded.id
          THEN [loaded EXCEPT !.status = status, !.updated_at = t]
          ELSE r : r \in rows}

write_status_upsert(rows, loaded, status, t) ==
    IF status = loaded.status THEN rows
    ELSE {r \in rows : r.id # loaded.id}
            \cup {[loaded EXCEPT !.status = status, !.updated_at = t]}

write_status(rows, loaded, status, t) ==
    IF status = loaded.status THEN rows
    ELSE {IF r.id = loaded.id
          THEN [r EXCEPT !.status = status, !.updated_at = t]
          ELSE r : r \in rows}

(* The flush of task.title = title in a session that loaded `loaded`:      *)
(* UPDATE tasks SET title = ?, updated_at = ? WHERE id = ?                 *)
write_title(rows, loaded, title, t) ==
    IF title = loaded.title THEN rows
    ELSE {IF r.id = loaded.id
          THEN [r EXCEPT !.title = title, !.updated_at = t]
          ELSE r : r \in rows}

----------------------------------------------------------------------------
(* The frontend: the auth library (src/lib/auth.ts), the API client        *)
(* (src/lib/api-client.ts) and the dashboard page (app/dashboard/page.tsx). *)
(* What the Better Auth client and the server answer is an input of each   *)
(* call.                                                                   *)

backend == <<tasks, nextId, now, deleted, req, resp, sql, inflight>>

(* window.location.href, localStorage's token and user, and the Better     *)
(* Auth session the browser's cookie names.  sameCall and loggedOut are    *)
(* history: whether the stored token was written by the call that wrote    *)
(* the stored user, and whether logout() ran since the last sign-in.       *)
Browser(location, token, user, session, sameCall, loggedOut) ==
    [token |-> token, location |-> location, user |-> user,
     session |-> session, sameCall |-> sameCall, loggedOut |-> loggedOut]

(* The JWT Better Auth issues for a user *)
TokenOf(u) == IF u = "u1" THEN "t1" ELSE "t2"

(* A promise that rejects *)
Throws == "throws"

(* JavaScript's truthiness of a string | null *)
truthy_nonnull(v) == v # None

truthy(v) == v \notin {None, Empty}

(* api-client.ts getToken: bt is what authClient.token() resolved to *)
getToken(bt, stored) ==
    IF bt # Throws /\ truthy(bt) THEN bt ELSE stored

(* What authClient.token() can resolve to under a session *)
TokenResults(session) ==
    {Throws, None, Empty} \cup (IF session = None THEN {} ELSE {TokenOf(session)})

(* A response of the server: its status, whether its body parses as JSON,  *)
(* and the body's error.message.  Status 0 is a fetch that rejects.        *)
Reply(status, json, message) ==
    [status |-> status, json |-> json, message |-> message]

NoReply == Reply(0, FALSE, None)

Replies ==
    { Reply(200, TRUE, None), Reply(401, TRUE, None), Reply(401, FALSE, None),
      Reply(500, TRUE, "Internal server error"), NoReply }

(* What one apiRequest did: whether fetch was called and with which        *)
(* Authorization header, whether window.location.href was set to /login,   *)
(* and whether it returned data or threw, with the Error's message.        *)
Result(sent, authorization, redirect, outcome, message) ==
    [authorization |-> authorization, message |-> message, sent |-> sent,
     redirect |-> redirect, outcome |-> outcome]

apiRequest(requireAuth, bt, stored, reply) ==
    LET jwtToken == IF requireAuth THEN getToken(bt, stored) ELSE None IN
    IF requireAuth /\ ~truthy(jwtToken)
    THEN Result(FALSE, <<>>, TRUE, Throws, "Unauthorized: No valid token")
    ELSE LET authorization == IF truthy(jwtToken)
                              THEN <<"Bearer ", jwtToken>>
                              ELSE <<>>
         IN
         IF reply.status = 0
         THEN Result(TRUE, authorization, FALSE, Throws, "Failed to fetch")
         ELSE IF ~reply.json
         THEN Result(TRUE, authorization, FALSE, Throws, "Unexpected token")
         ELSE IF reply.status \notin 200..299
         THEN Result(TRUE, authorization, reply.status = 401, Throws,
                     IF truthy(reply.message) THEN reply.message
                                              ELSE "Request failed")
         ELSE Result(TRUE, authorization, FALSE, "returns", "")

(* The record of a call: what it was given and what it did *)
Call(op, requireAuth, bt, stored, reply, result) ==
    [op |-> op, bt |-> bt, stored |-> stored, requireAuth |-> requireAuth,
     reply |-> reply, result |-> result]

Returns == Result(FALSE, <<>>, FALSE, "returns", "")

Thrown(message) == Result(FALSE, <<>>, FALSE, Throws, message)

AuthCall(op, result) == Call(op, FALSE, None, None, NoReply, result)

NoCall == AuthCall("none", Returns)

(* What authClient.signIn.email / signUp.email resolves to: an error, or   *)
(* data with or without user and session, the session with or without a    *)
(* token.                                                                  *)
AuthResult(error, user, token) ==
    [token |-> token, user |-> user, error |-> error]

AuthResults(u) ==
    { AuthResult(TRUE, None, Empty), AuthResult(FALSE, None, Empty),
      AuthResult(FALSE, u, TokenOf(u)), AuthResult(FALSE, u, Empty) }

(* auth.ts isAuthenticated: g is what authClient.getSession() did *)
isAuthenticated(g, b) ==
    \/ g # Throws /\ b.session # None
    \/ b.token # None

(* A task as the dashboard holds it, and the id of no task (null) *)
Item(id, status) == [status |-> status, id |-> id]

NoId == 0

(* The React state of DashboardPage.  currentStatus and confirmedId are    *)
(* what the pending handleToggleTask and handleDeleteConfirm captured when *)
(* they were called; fresh is the id the server gives the next task; op is *)
(* the handler that ran last.                                              *)
Dashboard(mounted, items, loading, error, creatingTask, updatingTaskId, deleteTaskId, deletingTask, currentStatus, confirmedId, fresh, op) ==
    [op |-> op, error |-> error, mounted |-> mounted, items |-> items,
     loading |-> loading, creatingTask |-> creatingTask,
     updatingTaskId |-> updatingTaskId, deleteTaskId |-> deleteTaskId,
     deletingTask |-> deletingTask, currentStatus |-> currentStatus,
     confirmedId |-> confirmedId, fresh |-> fresh]

(* useState's initial values; loadTasks is pending while loading *)
Mounted ==
    Dashboard(TRUE, <<>>, TRUE, "", FALSE, NoId, NoId, FALSE, "pending", NoId,
              1, "DashboardPage")

(* The page before it is mounted and after the browser has left it *)
Unmounted ==
    Dashboard(FALSE, <<>>, TRUE, "", FALSE, NoId, NoId, FALSE, "pending", NoId,
              1, "none")

(* What the page renders: the spinner while loading, the error message    *)
(* alone once error is set, the form, the list and the dialog otherwise.   *)
Rendered_with_error(d) == d.mounted /\ ~d.loading

Rendered(d) == d.mounted /\ ~d.loading /\ d.error = ""

itemIds(items) == {items[i].id : i \in 1..Len(items)}

statusOf(items, id) ==
    (CHOOSE t \in {items[i] : i \in 1..Len(items)} : t.id = id).status

(* const taskToDelete = deleteTaskId ? tasks.find(...) : null *)
taskToDelete(d) ==
    d.deleteTaskId # NoId /\ d.deleteTaskId \in itemIds(d.items)

(* prev.map(task => task.id === id ? {...task, status: newStatus} : task) *)
optimistic(prev, id, newStatus) ==
    [i \in 1..Len(prev) |->
        IF prev[i].id = id THEN [prev[i] EXCEPT !.status = newStatus]
                           ELSE prev[i]]

(* prev.map(task => task.id === id ? {...task, status: currentStatus} : task) *)
rollback_kept(prev, id, currentStatus) == prev

rollback(prev, id, currentStatus) ==
    [i \in 1..Len(prev) |->
        IF prev[i].id = id THEN [prev[i] EXCEPT !.status = currentStatus]
                           ELSE prev[i]]

(* prev.filter(task => task.id !== deleteTaskId) *)
remove(prev, id) == SelectSeq(prev, LAMBDA t : t.id # id)

(* What GET /api/tasks returns to a page *)
TaskLists ==
    {<<>>} \cup {<<Item(1, x)>> : x \in {"pending", "completed"}}

Init ==
    /\ tasks = {}
    /\ nextId = 1
    /\ now = 0
    /\ deleted = {}
    /\ req = NoReq
    /\ resp = Response(200, "", <<>>)
    /\ sql = {}
    /\ inflight = [w \in Workers |-> Idle]
    /\ browser = Browser("/", None, None, None, FALSE, FALSE)
    /\ call = NoCall
    /\ dashboard = Unmounted

Tick ==
    /\ now < MaxTime
    /\ now' = now + 1
    /\ UNCHANGED <<tasks, nextId, deleted, req, resp, sql, inflight>>
    /\ UNCHANGED frontend

Unauthenticated(cu) ==
    /\ resp' = Response(cu.status, cu.detail, <<>>)
    /\ sql' = {}
    /\ UNCHANGED <<tasks, nextId, deleted>>

(* GET /api/tasks *)
get_tasks(authorization) ==
    LET cu == get_current_user(authorization, now) IN
    /\ req' = Req("List", authorization, 0, NoTitle, "pending", None)
    /\ UNCHANGED now
    /\ IF ~cu.ok THEN Unauthenticated(cu)
       ELSE /\ \E body \in OrderByCreatedDesc(SelectByUser(tasks, cu.user_id)) :
                  resp' = Response(200, "", body)
            /\ sql' = {"select"}
            /\ UNCHANGED <<tasks, nextId, deleted>>

(* POST /api/tasks *)
create_task(authorization, title, supplied_user_id) ==
    LET cu        == get_current_user(authorization, now)
        task_data == TaskCreate(title)
        task      == new_task(task_data.title, cu.user_id, supplied_user_id,
                              nextId, now)
    IN
    /\ nextId <= MaxTasks
    /\ req' = Req("Create", authorization, 0, title, "pending", supplied_user_id)
    /\ UNCHANGED now
    /\ IF ~cu.ok THEN Unauthenticated(cu)
       ELSE IF ~task_data.ok
       THEN /\ resp' = Response(422, "title", <<>>)
            /\ sql' = {}
            /\ UNCHANGED <<tasks, nextId, deleted>>
       ELSE IF ~InsertAllowed(task)
       THEN /\ resp' = Response(500, "IntegrityError", <<>>)
            /\ sql' = {"insert"}
            /\ UNCHANGED <<tasks, nextId, deleted>>
       ELSE /\ tasks' = tasks \cup {task}
            /\ nextId' = nextId + 1
            /\ resp' = Response(201, "", <<task>>)
            /\ sql' = {"insert"}
            /\ UNCHANGED deleted

NotFound ==
    /\ resp' = Response(404, "Task not found", <<>>)
    /\ sql' = {"select"}
    /\ UNCHANGED <<tasks, nextId, deleted>>

(* GET /api/tasks/{id} *)
get_task(authorization, task_id) ==
    LET cu    == get_current_user(authorization, now)
        found == SelectOwned(tasks, task_id, cu.user_id)
    IN
    /\ req' = Req("Get", authorization, task_id, NoTitle, "pending", None)
    /\ UNCHANGED now
    /\ IF ~cu.ok THEN Unauthenticated(cu)
       ELSE IF found = {} THEN NotFound
       ELSE \E task \in found :
              /\ resp' = Response(200, "", <<task>>)
              /\ sql' = {"select"}
              /\ UNCHANGED <<tasks, nextId, deleted>>

(* PUT /api/tasks/{id} *)
put_task(authorization, task_id, title) ==
    LET cu        == get_current_user(authorization, now)
        task_data == TaskUpdate(title)
        found     == SelectOwned(tasks, task_id, cu.user_id)
    IN
    /\ req' = Req("UpdateTitle", authorization, task_id, title, "pending", None)
    /\ UNCHANGED now
    /\ IF ~cu.ok THEN Unauthenticated(cu)
       ELSE IF ~task_data.ok
       THEN /\ resp' = Response(422, "title", <<>>)
            /\ sql' = {}
            /\ UNCHANGED <<tasks, nextId, deleted>>
       ELSE IF found = {} THEN NotFound
       ELSE \E task \in found :
              /\ tasks' = set_title(tasks, task, task_data.title, now)
              /\ resp' = Response(200, "",
                                  <<CHOOSE r \in tasks' : r.id = task.id>>)
              /\ sql' = IF tasks' = tasks THEN {"select"} ELSE {"select", "update"}
              /\ UNCHANGED <<nextId, deleted>>

(* PATCH /api/tasks/{id}; the first variant runs the query before the     *)
(* request model is applied.                                               *)
update_task_lookup_first(authorization, task_id, status) ==
    LET cu    == get_current_user(authorization, now)
        data  == TaskPatch(status)
        found == SelectOwned(tasks, task_id, cu.user_id)
    IN
    /\ req' = Req("UpdateStatus", authorization, task_id, NoTitle, status, None)
    /\ UNCHANGED now
    /\ IF ~cu.ok THEN Unauthenticated(cu)
       ELSE IF found = {} THEN NotFound
       ELSE IF ~data.ok
       THEN /\ resp' = Response(422, "status", <<>>)
            /\ sql' = {"select"}
            /\ UNCHANGED <<tasks, nextId, deleted>>
       ELSE \E task \in found :
              /\ tasks' = set_status(tasks, task, data.status, now)
              /\ resp' = Response(200, "",
                                  <<CHOOSE r \in tasks' : r.id = task.id>>)
              /\ sql' = IF tasks' = tasks THEN {"select"} ELSE {"select", "update"}
              /\ UNCHANGED <<nextId, deleted>>

update_task(authorization, task_id, status) ==
    LET cu    == get_current_user(authorization, now)
        data  == TaskPatch(status)
        found == SelectOwned(tasks, task_id, cu.user_id)
    IN
    /\ req' = Req("UpdateStatus", authorization, task_id, NoTitle, status, None)
    /\ UNCHANGED now
    /\ IF ~cu.ok THEN Unauthenticated(cu)
       ELSE IF ~data.ok
       THEN /\ resp' = Response(422, "status", <<>>)
            /\ sql' = {}
            /\ UNCHANGED <<tasks, nextId, deleted>>
       ELSE IF found = {} THEN NotFound
       ELSE \E task \in found :
              /\ tasks' = set_status(tasks, task, data.status, now)
              /\ resp' = Response(200, "",
                                  <<CHOOSE r \in tasks' : r.id = task.id>>)
              /\ sql' = IF tasks' = tasks THEN {"select"} ELSE {"select", "update"}
              /\ UNCHANGED <<nextId, deleted>>

(* DELETE /api/tasks/{id} *)
delete_task(authorization, task_id) ==
    LET cu    == get_current_user(authorization, now)
        found == SelectOwned(tasks, task_id, cu.user_id)
    IN
    /\ req' = Req("Delete", authorization, task_id, NoTitle, "pending", None)
    /\ UNCHANGED now
    /\ IF ~cu.ok THEN Unauthenticated(cu)
       ELSE IF found = {} THEN NotFound
       ELSE \E task \in found :
              /\ tasks' = delete_row(tasks, task)
              /\ deleted' = deleted \cup {[id |-> task.id, owner |-> cu.user_id]}
              /\ resp' = Response(200, "Task deleted", <<>>)
              /\ sql' = {"select", "delete"}
              /\ UNCHANGED nextId

(* PATCH /api/tasks/{id}, first step: the dependency, the request model    *)
(* and the SELECT by id and owner; the row found stays in the session.     *)
update_task_select(w, authorization, task_id, status) ==
    LET cu    == get_current_user(authorization, now)
        data  == TaskPatch(status)
        found == SelectOwned(tasks, task_id, cu.user_id)
    IN
    /\ inflight[w].stage # "loaded"
    /\ UNCHANGED now
    /\ IF ~cu.ok
       THEN /\ req' = Req("UpdateStatus", authorization, task_id, NoTitle, status, None)
            /\ Unauthenticated(cu)
            /\ UNCHANGED inflight
       ELSE IF ~data.ok
       THEN /\ req' = Req("UpdateStatus", authorization, task_id, NoTitle, status, None)
            /\ resp' = Response(422, "status", <<>>)
            /\ sql' = {}
            /\ UNCHANGED <<tasks, nextId, deleted, inflight>>
       ELSE IF found = {}
       THEN /\ req' = Req("UpdateStatus", authorization, task_id, NoTitle, status, None)
            /\ NotFound
            /\ UNCHANGED inflight
       ELSE \E task \in found :
              /\ inflight' = [inflight EXCEPT ![w] =
                    Session("loaded", authorization, task, data.status, FALSE,
                            \E v \in Workers \ {w} : inflight[v].stage = "loaded")]
              /\ sql' = {"select"}
              /\ UNCHANGED <<tasks, nextId, deleted, req, resp>>

(* PATCH /api/tasks/{id}, second step: task.status = data.status and       *)
(* db.commit(), then the row is read back for the response.  A row that is *)
(* gone by then fails the flush or the read (StaleDataError).              *)
update_task_commit(w) ==
    LET s       == inflight[w]
        changed == s.status # s.task.status
        current == {r \in tasks : r.id = s.task.id}
    IN
    /\ s.stage = "loaded"
    /\ s.title = NoTitle
    /\ req' = Req("UpdateStatus", s.authorization, s.task.id, NoTitle, s.status, None)
    /\ sql' = IF changed THEN {"select", "update"} ELSE {"select"}
    /\ tasks' = write_status(tasks, s.task, s.status, now)
    /\ resp' = IF current = {}
               THEN Response(500, "StaleDataError", <<>>)
               ELSE Response(200, "", <<CHOOSE r \in tasks' : r.id = s.task.id>>)
    /\ inflight' = [inflight EXCEPT ![w] =
          [s EXCEPT !.stage = "done", !.wrote = changed /\ current # {}]]
    /\ UNCHANGED <<nextId, now, deleted>>

(* PUT /api/tasks/{id}, first step: the dependency, the request model and  *)
(* the SELECT by id and owner; the row found stays in the session.         *)
put_task_select(w, authorization, task_id, title) ==
    LET cu    == get_current_user(authorization, now)
        data  == TaskUpdate(title)
        found == SelectOwned(tasks, task_id, cu.user_id)
    IN
    /\ inflight[w].stage # "loaded"
    /\ UNCHANGED now
    /\ IF ~cu.ok
       THEN /\ req' = Req("UpdateTitle", authorization, task_id, title, "pending", None)
            /\ Unauthenticated(cu)
            /\ UNCHANGED inflight
       ELSE IF ~data.ok
       THEN /\ req' = Req("UpdateTitle", authorization, task_id, title, "pending", None)
            /\ resp' = Response(422, "title", <<>>)
            /\ sql' = {}
            /\ UNCHANGED <<tasks, nextId, deleted, inflight>>
       ELSE IF found = {}
       THEN /\ req' = Req("UpdateTitle", authorization, task_id, title, "pending", None)
            /\ NotFound
            /\ UNCHANGED inflight
       ELSE \E task \in found :
              /\ inflight' = [inflight EXCEPT ![w] =
                    [Session("loaded", authorization, task, task.status, FALSE,
                             \E v \in Workers \ {w} : inflight[v].stage = "loaded")
                       EXCEPT !.title = data.title]]
              /\ sql' = {"select"}
              /\ UNCHANGED <<tasks, nextId, deleted, req, resp>>

(* PUT /api/tasks/{id}, second step: task.title = task_data.title,         *)
(* session.commit() and session.refresh(task).  A row that is gone by then *)
(* fails the flush or the refresh.                                         *)
put_task_commit(w) ==
    LET s       == inflight[w]
        changed == s.title # s.task.title
        current == {r \in tasks : r.id = s.task.id}
    IN
    /\ s.stage = "loaded"
    /\ s.title # NoTitle
    /\ req' = Req("UpdateTitle", s.authorization, s.task.id, s.title, "pending", None)
    /\ sql' = IF changed THEN {"select", "update"} ELSE {"select"}
    /\ tasks' = write_title(tasks, s.task, s.title, now)
    /\ resp' = IF current = {}
               THEN Response(500, "StaleDataError", <<>>)
               ELSE Response(200, "", <<CHOOSE r \in tasks' : r.id = s.task.id>>)
    /\ inflight' = [inflight EXCEPT ![w] =
          [s EXCEPT !.stage = "done", !.wrote = changed /\ current # {}]]
    /\ UNCHANGED <<nextId, now, deleted>>

(* The requests of a run: each operation with its inputs drawn from the     *)
(* given sets.                                                             *)
List(C) ==
    /\ \E a \in C : get_tasks(a)
    /\ UNCHANGED <<inflight, browser, call, dashboard>>

Create(C, V, U) ==
    /\ \E a \in C, v \in V, u \in U : create_task(a, v, u)
    /\ UNCHANGED <<inflight, browser, call, dashboard>>

Get(C) ==
    /\ \E a \in C, i \in TaskIds : get_task(a, i)
    /\ UNCHANGED <<inflight, browser, call, dashboard>>

UpdateTitle(C, V) ==
    /\ \E a \in C, i \in TaskIds, v \in V : put_task(a, i, v)
    /\ UNCHANGED <<inflight, browser, call, dashboard>>

UpdateStatus(C, S) ==
    /\ \E a \in C, i \in TaskIds, x \in S : update_task(a, i, x)
    /\ UNCHANGED <<inflight, browser, call, dashboard>>

Delete(C) ==
    /\ \E a \in C, i \in TaskIds : delete_task(a, i)
    /\ UNCHANGED <<inflight, browser, call, dashboard>>

(* Two PATCH requests served at once: each worker runs update_task in two  *)
(* steps, the SELECT that loads the row into its session and the commit    *)
(* that flushes the assignment, and the steps of the workers interleave.   *)
BeginUpdateStatus(C, I, S) ==
    /\ \E w \in Workers, a \in C, i \in I, x \in S :
          update_task_select(w, a, i, x)
    /\ UNCHANGED frontend

CommitUpdateStatus ==
    /\ \E w \in Workers : update_task_commit(w)
    /\ UNCHANGED frontend

BeginUpdateTitle(C, I, V) ==
    /\ \E w \in Workers, a \in C, i \in I, v \in V :
          put_task_select(w, a, i, v)
    /\ UNCHANGED frontend

CommitUpdateTitle ==
    /\ \E w \in Workers : put_task_commit(w)
    /\ UNCHANGED frontend

(* Two owners working on the same table *)
OwnerTitles == {Title(0, 0, 0), Title(2, 1, 2), Title(0, MAX_TITLE_LENGTH, 0)}

Next ==
    \/ List(OwnerCredentials)
    \/ Create(OwnerCredentials, OwnerTitles, {None})
    \/ Get(OwnerCredentials)
    \/ UpdateTitle(OwnerCredentials, OwnerTitles)
    \/ UpdateStatus(OwnerCredentials, StatusInputs)
    \/ Delete(OwnerCredentials)

Spec == Init /\ [][Next]_vars

(* Creation, with an owner supplied in the body, by every kind of subject *)
CreateCredentials == OwnerCredentials \cup {NoSubject}

NextCreate ==
    \/ List(CreateCredentials)
    \/ Create(CreateCredentials, {Title(2, 1, 2), Title(0, 0, 0)}, Subs)
    \/ Get(CreateCredentials)
    \/ Delete(CreateCredentials)

SpecCreate == Init /\ [][NextCreate]_vars

(* One owner, every title *)
NextTitle ==
    \/ List({Bearer("u1")})
    \/ Create({Bearer("u1")}, TitleInputs, {None})
    \/ Get({Bearer("u1")})
    \/ UpdateTitle({Bearer("u1")}, TitleInputs)

SpecTitle == Init /\ [][NextTitle]_vars

(* One owner, and every request also sent with each failing credential *)
AuthCredentials == {Bearer("u1")} \cup FailingCredentials

NextAuth ==
    \/ List(AuthCredentials)
    \/ Create(AuthCredentials, {Title(2, 1, 2)}, {None})
    \/ Get(AuthCredentials)
    \/ UpdateTitle(AuthCredentials, {Title(0, MAX_TITLE_LENGTH, 0)})
    \/ UpdateStatus(AuthCredentials, {"completed"})
    \/ Delete(AuthCredentials)

SpecAuth == Init /\ [][NextAuth]_vars

(* The dependency alone, over every header and at every time *)
VerifyWith(C) ==
    \E a \in C :
       LET cu == get_current_user(a, now) IN
       /\ req' = Req("Verify", a, 0, NoTitle, "pending", None)
       /\ resp' = Response(cu.status, cu.detail, <<>>)
       /\ sql' = {}
       /\ UNCHANGED <<tasks, nextId, now, deleted, inflight>>
       /\ UNCHANGED frontend

Verify == VerifyWith(AllHeaders)

NextVerify == Tick \/ Verify

SpecVerify == Init /\ [][NextVerify]_vars

(* The clock running: one owner creating, both subjects updating *)
TimeTitles   == {Title(0, MAX_TITLE_LENGTH, 0)}

NextTime ==
    \/ Tick
    \/ Create({Bearer("u1")}, {Title(2, 1, 2)}, {None})
    \/ UpdateTitle({Bearer("u1")}, TimeTitles)
    \/ UpdateStatus(OwnerCredentials, {"completed"})

SpecTime == Init /\ [][NextTime]_vars

(* The clock running: one owner creating, renaming and listing *)
NextOrder ==
    \/ Tick
    \/ Create({Bearer("u1")}, {Title(2, 1, 2)}, {None})
    \/ UpdateTitle({Bearer("u1")}, TimeTitles)
    \/ List({Bearer("u1")})

SpecOrder == Init /\ [][NextOrder]_vars

(* A subject without a users row beside an owner, over a changing table *)
GhostCredentials ==
    {Bearer("u1"), Bearer(Ghost), NoHeader,
     Header("Bearer ", create_access_token(Ghost, 1))}

NextStore ==
    \/ Tick
    \/ VerifyWith(GhostCredentials)
    \/ List(GhostCredentials)
    \/ Create(GhostCredentials, {Title(2, 1, 2)}, {None})
    \/ Delete({Bearer("u1")})

SpecStore == Init /\ [][NextStore]_vars

(* One owner; PATCH requests of two workers on the first row interleave,   *)
(* and with them a PUT served in one step.                                 *)
NextConcurrent ==
    \/ Create({Bearer("u1")}, {Title(2, 1, 2)}, {None})
    \/ UpdateTitle({Bearer("u1")}, TimeTitles)
    \/ BeginUpdateStatus({Bearer("u1")}, {1}, {"pending", "completed"})
    \/ CommitUpdateStatus

SpecConcurrent == Init /\ [][NextConcurrent]_vars

(* A Delete served while a PUT or a PATCH of the same task holds its       *)
(* loaded row                                                              *)
NextRace ==
    \/ Create({Bearer("u1")}, {Title(2, 1, 2)}, {None})
    \/ Delete({Bearer("u1")})
    \/ BeginUpdateStatus({Bearer("u1")}, {1}, {"completed"})
    \/ CommitUpdateStatus
    \/ BeginUpdateTitle({Bearer("u1")}, {1}, TimeTitles)
    \/ CommitUpdateTitle
    \/ List({Bearer("u1")})
    \/ Get({Bearer("u1")})

SpecRace == Init /\ [][NextRace]_vars

----------------------------------------------------------------------------
(* The frontend's operations *)

(* auth.ts signInWithBetterAuth *)
signInWithBetterAuth(u, result) ==
    /\ IF result.error \/ result.user = None
       THEN /\ call' = AuthCall("signIn", Thrown("Login failed"))
            /\ UNCHANGED browser
       ELSE /\ browser' = [browser EXCEPT
                             !.user = result.user,
                             !.token = IF truthy(result.token)
                                       THEN result.token ELSE @,
                             !.session = result.user,
                             !.sameCall = truthy(result.token),
                             !.loggedOut = FALSE]
            /\ call' = AuthCall("signIn", Returns)
    /\ UNCHANGED dashboard
    /\ UNCHANGED backend

(* auth.ts signUpWithBetterAuth *)
signUpWithBetterAuth(u, result) ==
    /\ IF result.error \/ result.user = None
       THEN /\ call' = AuthCall("signUp", Thrown("Signup failed"))
            /\ UNCHANGED browser
       ELSE /\ browser' = [browser EXCEPT
                             !.user = result.user,
                             !.token = IF truthy(result.token)
                                       THEN result.token ELSE @,
                             !.session = result.user,
                             !.sameCall = truthy(result.token),
                             !.loggedOut = FALSE]
            /\ call' = AuthCall("signUp", Returns)
    /\ UNCHANGED dashboard
    /\ UNCHANGED backend

(* auth.ts logout: signedOut is whether authClient.signOut() ended the     *)
(* session; when it rejects the session and its cookie stay.  The browser  *)
(* leaves whatever page it was on.                                         *)
logout(signedOut) ==
    /\ browser' = Browser("/", None, None,
                          IF signedOut THEN None ELSE browser.session,
                          FALSE, TRUE)
    /\ call' = AuthCall("logout", Returns)
    /\ dashboard' = Unmounted
    /\ UNCHANGED backend

(* Opening /dashboard: DashboardPage mounts, its effects call requireAuth  *)
(* and loadTasks; g is what authClient.getSession() did.                   *)
DashboardPage(g) ==
    LET authenticated == isAuthenticated(g, browser) IN
    /\ browser' = [browser EXCEPT !.location = IF authenticated
                                               THEN "/dashboard"
                                               ELSE "/login"]
    /\ call' = AuthCall("requireAuth",
                        Result(FALSE, <<>>, ~authenticated, "returns", ""))
    /\ dashboard' = IF authenticated THEN Mounted ELSE Unmounted
    /\ UNCHANGED backend

(* One call of apiRequest outside the dashboard *)
ApiRequest(A, R) ==
    \E requireAuth \in A, bt \in TokenResults(browser.session), reply \in R :
       LET r == apiRequest(requireAuth, bt, browser.token, reply) IN
       /\ call' = Call("apiRequest", requireAuth, bt, browser.token,
                       IF r.sent THEN reply ELSE NoReply, r)
       /\ browser' = [browser EXCEPT !.location = IF r.redirect
                                                  THEN "/login" ELSE @]
       /\ dashboard' = IF r.redirect THEN Unmounted ELSE dashboard
       /\ UNCHANGED backend

(* One request of the dashboard through the API client, settled: the       *)
(* browser leaves the page when apiRequest redirects, else the handler's   *)
(* try or catch branch gives the next React state.                         *)
settle(bt, reply, then, catch) ==
    LET r == apiRequest(TRUE, bt, browser.token, reply) IN
    /\ bt \in TokenResults(browser.session)
    /\ call' = Call("apiRequest", TRUE, bt, browser.token,
                    IF r.sent THEN reply ELSE NoReply, r)
    /\ browser' = [browser EXCEPT !.location = IF r.redirect
                                               THEN "/login" ELSE @]
    /\ dashboard' = IF r.redirect THEN Unmounted
                    ELSE IF r.outcome = "returns" THEN then
                    ELSE [catch EXCEPT !.error = r.message]
    /\ UNCHANGED backend

(* page.tsx loadTasks, from the await on *)
loadTasks(bt, reply, list) ==
    /\ dashboard.mounted
    /\ dashboard.loading
    /\ settle(bt, reply,
              [dashboard EXCEPT !.items = list, !.fresh = Len(list) + 1,
                                !.loading = FALSE, !.op = "loadTasks"],
              [dashboard EXCEPT !.loading = FALSE, !.op = "loadTasks"])

(* page.tsx handleCreateTask, up to the await *)
handleCreateTask ==
    /\ Rendered(dashboard)
    /\ ~dashboard.creatingTask
    /\ dashboard.fresh <= MaxTasks
    /\ dashboard' = [dashboard EXCEPT !.creatingTask = TRUE,
                                      !.op = "handleCreateTask"]
    /\ UNCHANGED <<browser, call>>
    /\ UNCHANGED backend

(* page.tsx handleCreateTask, from the await on *)
handleCreateTask_settled(bt, reply) ==
    /\ dashboard.mounted
    /\ dashboard.creatingTask
    /\ settle(bt, reply,
              [dashboard EXCEPT
                  !.items = <<Item(dashboard.fresh, "pending")>> \o @,
                  !.fresh = @ + 1,
                  !.creatingTask = FALSE, !.op = "handleCreateTask_settled"],
              [dashboard EXCEPT
                  !.creatingTask = FALSE, !.op = "handleCreateTask_settled"])

(* page.tsx handleToggleTask, up to the await *)
handleToggleTask(id) ==
    /\ Rendered(dashboard)
    /\ id \in itemIds(dashboard.items)
    /\ dashboard.updatingTaskId = NoId
    /\ LET currentStatus == statusOf(dashboard.items, id)
           newStatus == IF currentStatus = "pending" THEN "completed"
                                                     ELSE "pending"
       IN dashboard' = [dashboard EXCEPT
                           !.items = optimistic(@, id, newStatus),
                           !.updatingTaskId = id,
                           !.currentStatus = currentStatus,
                           !.op = "handleToggleTask"]
    /\ UNCHANGED <<browser, call>>
    /\ UNCHANGED backend

(* page.tsx handleToggleTask, from the await on *)
handleToggleTask_settled(bt, reply) ==
    /\ dashboard.mounted
    /\ dashboard.updatingTaskId # NoId
    /\ settle(bt, reply,
              [dashboard EXCEPT
                  !.updatingTaskId = NoId, !.op = "handleToggleTask_settled"],
              [dashboard EXCEPT
                  !.items = rollback(@, dashboard.updatingTaskId,
                                     dashboard.currentStatus),
                  !.updatingTaskId = NoId, !.op = "handleToggleTask_settled"])

(* page.tsx handleDeleteClick; the first variant removes the task at the   *)
(* click, as an optimistic deletion would.                                 *)
handleDeleteClick_optimistic(id) ==
    /\ Rendered(dashboard)
    /\ id \in itemIds(dashboard.items)
    /\ dashboard.updatingTaskId = NoId
    /\ dashboard' = [dashboard EXCEPT !.items = remove(@, id),
                                      !.deleteTaskId = id,
                                      !.op = "handleDeleteClick"]
    /\ UNCHANGED <<browser, call>>
    /\ UNCHANGED backend

handleDeleteClick(id) ==
    /\ Rendered(dashboard)
    /\ id \in itemIds(dashboard.items)
    /\ dashboard.updatingTaskId = NoId
    /\ dashboard' = [dashboard EXCEPT !.deleteTaskId = id,
                                      !.op = "handleDeleteClick"]
    /\ UNCHANGED <<browser, call>>
    /\ UNCHANGED backend

(* page.tsx handleDeleteConfirm, up to the await *)
handleDeleteConfirm ==
    /\ Rendered(dashboard)
    /\ taskToDelete(dashboard)
    /\ ~dashboard.deletingTask
    /\ dashboard' = [dashboard EXCEPT !.deletingTask = TRUE,
                                      !.confirmedId = dashboard.deleteTaskId,
                                      !.op = "handleDeleteConfirm"]
    /\ UNCHANGED <<browser, call>>
    /\ UNCHANGED backend

(* page.tsx handleDeleteConfirm, from the await on *)
handleDeleteConfirm_settled(bt, reply) ==
    /\ dashboard.mounted
    /\ dashboard.deletingTask
    /\ settle(bt, reply,
              [dashboard EXCEPT
                  !.items = remove(@, dashboard.confirmedId),
                  !.deleteTaskId = NoId,
                  !.deletingTask = FALSE, !.op = "handleDeleteConfirm_settled"],
              [dashboard EXCEPT
                  !.deletingTask = FALSE, !.op = "handleDeleteConfirm_settled"])

(* page.tsx handleDeleteCancel: the Cancel button or the dialog's backdrop *)
handleDeleteCancel ==
    /\ Rendered(dashboard)
    /\ taskToDelete(dashboard)
    /\ dashboard' = [dashboard EXCEPT !.deleteTaskId = NoId,
                                      !.op = "handleDeleteCancel"]
    /\ UNCHANGED <<browser, call>>
    /\ UNCHANGED backend

SignIn(U) ==
    \E u \in U : \E r \in AuthResults(u) : signInWithBetterAuth(u, r)

SignUp(U) ==
    \E u \in U : \E r \in AuthResults(u) : signUpWithBetterAuth(u, r)

Logout == \E signedOut \in BOOLEAN : logout(signedOut)

OpenDashboard == \E g \in {"session", Throws} : DashboardPage(g)

(* The dashboard in use: every handler, and every request settled by a    *)
(* reply of R under a token source of B                                    *)
Use ==
    \/ handleCreateTask
    \/ \E id \in TaskIds : handleToggleTask(id)
    \/ \E id \in TaskIds : handleDeleteClick(id)
    \/ handleDeleteConfirm
    \/ handleDeleteCancel

Settle(B, R) ==
    \E bt \in B, reply \in R :
       \/ \E list \in TaskLists : loadTasks(bt, reply, list)
       \/ handleCreateTask_settled(bt, reply)
       \/ handleToggleTask_settled(bt, reply)
       \/ handleDeleteConfirm_settled(bt, reply)

DashboardReplies ==
    { Reply(200, TRUE, None), Reply(401, TRUE, None),
      Reply(500, TRUE, "Internal server error") }

NextDashboard ==
    \/ \E r \in {AuthResult(FALSE, "u1", TokenOf("u1"))} :
          signInWithBetterAuth("u1", r)
    \/ DashboardPage("session")
    \/ Use
    \/ Settle({"t1"}, DashboardReplies)

SpecDashboard == Init /\ [][NextDashboard]_vars

(* Signing in and out and opening the dashboard *)
NextSession ==
    \/ SignIn(Users)
    \/ SignUp(Users)
    \/ Logout
    \/ OpenDashboard

SpecSession == Init /\ [][NextSession]_vars

(* The API client under every token source and reply *)
NextClient ==
    \/ SignIn({"u1"})
    \/ Logout
    \/ ApiRequest(BOOLEAN, Replies)

SpecClient == Init /\ [][NextClient]_vars

----------------------------------------------------------------------------
(* Properties *)

(* The subject the request's credential names *)
Caller == req.authorization.token.payload.sub

Mutations == {"UpdateTitle", "UpdateStatus", "Delete"}
ById      == {"Get"} \cup Mutations

(* The request carries a value its request model refuses *)
BadPayload(r) ==
    \/ /\ r.op = "UpdateTitle"
       /\ \/ r.title.lead + r.title.body + r.title.trail < 1
          \/ r.title.lead + r.title.body + r.title.trail > 500
          \/ r.title.body = 0
    \/ /\ r.op = "UpdateStatus"
       /\ r.status \notin {"pending", "completed"}

(* What a request by id gets when no row has that id *)
Miss(r) ==
    IF BadPayload(r)
    THEN Response(422, IF r.op = "UpdateTitle" THEN "title" ELSE "status", <<>>)
    ELSE Response(404, "Task not found", <<>>)

C2_OnlyOwnerChanges ==
    [][ \A t \in tasks :
          t \notin tasks' =>
             /\ req'.op \in Mutations
             /\ req'.id = t.id
             /\ Caller' = t.user_id
             /\ Kind(resp') = "Ok" ]_vars

C2_Witness ==
    /\ req.op \in Mutations
    /\ ~BadPayload(req)
    /\ \E t \in tasks : t.id = req.id /\ t.user_id # Caller
    /\ "update" \notin sql /\ "delete" \notin sql

(* C3: the task a successful Create persists is owned by the subject of    *)
(* the credential, whatever owner the body names, and every row has an     *)
(* owner.                                                                  *)
C3_OwnerIsCaller ==
    /\ \A t \in tasks : t.user_id \in Users
    /\ (req.op = "Create" /\ Kind(resp) = "Ok") =>
          \E t \in tasks : /\ t.id = nextId - 1
                           /\ t.user_id = Caller
                           /\ resp.body = <<t>>

C3_Witness ==
    /\ req.op = "Create"
    /\ Kind(resp) = "Ok"
    /\ req.user_id \notin {None, Caller}
    /\ \E t \in tasks : t.id = nextId - 1 /\ t.user_id = Caller

(* C4: List(p) answers 200 with exactly the rows p owns, each once; with   *)
(* none when p owns none.                                                  *)
C4_ListIsOwned ==
    req.op = "List" =>
       /\ resp.status = 200
       /\ {resp.body[i] : i \in 1..Len(resp.body)}
             = {t \in tasks : t.user_id = Caller}
       /\ Len(resp.body) = Cardinality({t \in tasks : t.user_id = Caller})

C4_Witness ==
    /\ req.op = "List"
    /\ resp.body = <<>>
    /\ resp.status = 200
    /\ \E t \in tasks : t.user_id # Caller

(* The credential fails verification: no header, no Bearer prefix, a      *)
(* signature that is not the secret's over this payload, claims that do    *)
(* not parse, an expiry that has passed, or no subject.                    *)
FailsVerification(r) ==
    \/ ~r.authorization.present
    \/ r.authorization.prefix # "Bearer "
    \/ r.authorization.token.signature.key # SECRET_KEY
    \/ r.authorization.token.signature.msg # r.authorization.token.payload
    \/ ~r.authorization.token.payload.wellformed
    \/ r.authorization.token.payload.exp < r.at
    \/ r.authorization.token.payload.sub = None

(* C5: a request whose credential fails verification ends Unauthenticated, *)
(* sends no statement to the database and leaves the table as it was.      *)
C5_RejectedBeforeStore ==
    [][ FailsVerification(req') =>
          /\ Kind(resp') = "Unauthenticated"
          /\ sql' = {}
          /\ tasks' = tasks ]_vars

(* The credential was issued for a user and is presented as a bearer token *)
Issued(r) ==
    /\ r.authorization.present
    /\ r.authorization.prefix = "Bearer "
    /\ r.authorization.token.payload.wellformed
    /\ r.authorization.token.payload.sub \in Users
    /\ r.authorization.token.signature
          = [msg |-> r.authorization.token.payload, key |-> SECRET_KEY]

(* C6, as stated: an issued credential verifies at every time before its   *)
(* expiration and is Unauthenticated at every time greater than or equal   *)
(* to it.                                                                  *)
C6_ExpiredAtExp ==
    (req.op = "Verify" /\ Issued(req)) =>
       /\ req.at < req.authorization.token.payload.exp => Kind(resp) = "Ok"
       /\ req.at >= req.authorization.token.payload.exp
             => Kind(resp) = "Unauthenticated"

(* C6, amended: an issued credential verifies at every time up to and      *)
(* including its exp claim, and is Unauthenticated at every later time.    *)
C6_ExpiredAfterExp ==
    (req.op = "Verify" /\ Issued(req)) =>
       /\ req.at <= req.authorization.token.payload.exp => Kind(resp) = "Ok"
       /\ req.at > req.authorization.token.payload.exp
             => Kind(resp) = "Unauthenticated"

C6_Witness ==
    /\ req.op = "Verify"
    /\ Issued(req)
    /\ req.at > req.authorization.token.payload.exp
    /\ req.authorization.token.payload.exp >= 0
    /\ Kind(resp) = "Unauthenticated"

(* C7: a credential whose payload is not the one the secret signed (one    *)
(* bit flipped, or more) is Unauthenticated; so is one whose payload no    *)
(* longer parses.                                                          *)
C7_TamperedRejected ==
    (/\ req.op = "Verify"
     /\ req.authorization.token.signature.key = SECRET_KEY
     /\ req.authorization.token.signature.msg # req.authorization.token.payload)
    => Kind(resp) = "Unauthenticated"

C7_Witness ==
    /\ req.op = "Verify"
    /\ req.authorization.prefix = "Bearer "
    /\ req.authorization.token.signature.key = SECRET_KEY
    /\ req.authorization.token.signature.msg.sub = "u1"
    /\ req.authorization.token.payload.sub = "u2"
    /\ req.authorization.token.payload.exp > req.at
    /\ Kind(resp) = "Unauthenticated"

(* C8: a successful Delete removes the row; a removed id never has a row   *)
(* again, a Delete of it by its former owner returns NotFound, and no List *)
(* contains it.                                                            *)
C8_DeleteIsFinal ==
    [][ /\ (req'.op = "Delete" /\ Kind(resp') = "Ok")
              => req'.id \notin ids(tasks')
        /\ \A d \in deleted : d.id \notin ids(tasks')
        /\ (/\ req'.op = "Delete"
            /\ [id |-> req'.id, owner |-> Caller'] \in deleted)
              => Kind(resp') = "NotFound"
        /\ req'.op = "List"
              => \A i \in 1..Len(resp'.body), d \in deleted' :
                    resp'.body[i].id # d.id ]_vars

C8_Witness ==
    /\ req.op = "Delete"
    /\ [id |-> req.id, owner |-> Caller] \in deleted
    /\ Kind(resp) = "NotFound"

C10_TrimmedLengthDecides ==
    /\ \A t \in tasks : t.title.body >= 1 /\ t.title.lead = 0 /\ t.title.trail = 0
    /\ (\/ req.op = "Create"
        \/ req.op = "UpdateTitle" /\ req.id \in ids(tasks))
       => /\ Kind(resp) = "Ok" <=> (req.title.body >= 1 /\ req.title.body <= 500)
          /\ Kind(resp) = "Ok" =>
                /\ Len(resp.body) = 1
                /\ resp.body[1].title = Title(0, req.title.body, 0)

(* C11: no step changes the owner or the creation time of a stored task:  *)
(* a row that is still in the store after a request, by whichever subject, *)
(* has the user_id and the created_at it had before it.                    *)
C11_OwnerAndCreationKept ==
    [][\A t \in tasks : \A u \in tasks' :
           u.id = t.id => /\ u.user_id = t.user_id
                          /\ u.created_at = t.created_at]_vars

(* A row rewritten by an update after the clock moved past its creation *)
C11_Witness ==
    /\ req.op \in {"UpdateTitle", "UpdateStatus"}
    /\ Kind(resp) = "Ok"
    /\ \E t \in tasks : /\ t.id = req.id
                        /\ t.updated_at = req.at
                        /\ t.created_at < t.updated_at

(* C12: an UpdateStatus by the owner of the row with pending or completed  *)
(* succeeds whatever status the row has, the requested one included; the   *)
(* row then has the requested status and the title, owner and creation     *)
(* time it had, and the response carries that row. Two such calls,         *)
(* pending to completed and back, therefore end in the first status.       *)
C12_StatusSet ==
    [][ \A t \in tasks :
          ( /\ req'.op = "UpdateStatus"
            /\ req'.status \in {"pending", "completed"}
            /\ req'.id = t.id
            /\ Caller' = t.user_id )
          => /\ Kind(resp') = "Ok"
             /\ \E u \in tasks' :
                   /\ u.id = t.id
                   /\ u.status = req'.status
                   /\ u.title = t.title
                   /\ u.user_id = t.user_id
                   /\ u.created_at = t.created_at
                   /\ resp'.body = <<u>> ]_vars

(* The owner asked for the status the row already had, and was answered Ok *)
C12_Witness ==
    /\ req.op = "UpdateStatus"
    /\ Kind(resp) = "Ok"
    /\ sql = {"select"}
    /\ \E t \in tasks : /\ t.id = req.id
                        /\ t.user_id = Caller
                        /\ t.status = "completed"
                        /\ req.status = "completed"

(* C13: every successful UpdateTitle or UpdateStatus, one that asks for    *)
(* the status the row already has included, leaves the row with an         *)
(* updated_at later than before (the clock having moved since the row was  *)
(* last written), and a request that fails leaves every updated_at as it   *)
(* was.                                                                    *)
C13_UpdatedAtRefreshed ==
    [][ req'.op \in {"UpdateTitle", "UpdateStatus"} =>
          \A t \in tasks :
             \E u \in tasks' :
                /\ u.id = t.id
                /\ IF Kind(resp') = "Ok" /\ req'.id = t.id
                   THEN t.updated_at < req'.at => u.updated_at > t.updated_at
                   ELSE u.updated_at = t.updated_at ]_vars

(* The Authorization header is absent or does not start with "Bearer " *)
NoBearer(r) ==
    ~r.authorization.present \/ r.authorization.prefix # "Bearer "

(* jwt.decode refuses the token: signature, format or expiration *)
Undecodable(r) ==
    \/ r.authorization.token.signature
          # [msg |-> r.authorization.token.payload, key |-> SECRET_KEY]
    \/ ~r.authorization.token.payload.wellformed
    \/ r.authorization.token.payload.exp < r.at

C15_SubjectRequired ==
    ( /\ req.op = "Verify"
      /\ req.authorization.token.payload.sub \in {None, Empty} )
    => Kind(resp) = "Unauthenticated"

C17_TitleFrame ==
    [][ (req'.op = "UpdateTitle" /\ Kind(resp') = "Ok") =>
          \E t \in tasks : \E u \in tasks' :
             /\ t.id = req'.id /\ t.user_id = Caller'
             /\ u = [t EXCEPT !.title = u.title, !.updated_at = u.updated_at]
             /\ u.title = strip(req'.title)
             /\ tasks' \ {u} = tasks \ {t}
             /\ nextId' = nextId /\ deleted' = deleted ]_vars

(* A completed row renamed after the clock moved, beside another row *)
C17_Witness ==
    /\ req.op = "UpdateTitle"
    /\ Kind(resp) = "Ok"
    /\ "update" \in sql
    /\ \E t \in tasks : \E o \in tasks :
          /\ t.id = req.id /\ o.id # t.id
          /\ t.status = "completed"
          /\ t.updated_at > t.created_at

(* C18: every stored row has status pending or completed: a row a Create   *)
(* adds starts as pending, and an UpdateStatus with any other value is     *)
(* answered ValidationError and leaves the table as it was.                *)
C18_StatusDomain ==
    [][ /\ \A u \in tasks' : u.status \in {"pending", "completed"}
        /\ \A u \in tasks' : u.id \notin ids(tasks) => u.status = "pending"
        /\ (req'.op = "UpdateStatus" /\ req'.status \notin {"pending", "completed"})
              => /\ Kind(resp') = "ValidationError"
                 /\ UNCHANGED <<tasks, nextId, deleted>> ]_vars

(* The owner of a row asked for a status outside the enumeration *)
C18_Witness ==
    /\ req.op = "UpdateStatus"
    /\ req.status = "archived"
    /\ Kind(resp) = "ValidationError"
    /\ \E t \in tasks : t.id = req.id /\ t.user_id = Caller

C20_LastWriteWins ==
    [][ \A w \in Workers :
          (inflight[w].stage = "loaded" /\ inflight'[w].stage = "done") =>
             /\ Kind(resp') = "Ok"
             /\ \A t \in tasks :
                   \E u \in tasks' :
                      /\ u.id = t.id
                      /\ Cardinality({r \in tasks' : r.id = t.id}) = 1
                      /\ u.title = t.title
                      /\ u.user_id = t.user_id
                      /\ u.created_at = t.created_at
                      /\ IF t.id = inflight[w].task.id /\ inflight'[w].wrote
                         THEN u.status = inflight[w].status
                         ELSE u = t
             /\ ids(tasks') = ids(tasks) ]_vars

(* Two calls that overlapped have both committed, each wrote a different   *)
(* status, and the row has the status of the one that committed last.      *)
C20_Witness ==
    \E w \in Workers : \E v \in Workers \ {w} :
       /\ inflight[w].stage = "done" /\ inflight[v].stage = "done"
       /\ inflight[w].task.id = inflight[v].task.id
       /\ inflight[w].wrote /\ inflight[v].wrote
       /\ inflight[v].overlapped
       /\ inflight[w].status # inflight[v].status
       /\ req.status = inflight[w].status
       /\ \E t \in tasks : t.id = inflight[w].task.id /\ t.status = inflight[w].status

(* C21, as stated: a Create, UpdateTitle or UpdateStatus whose title is    *)
(* empty or too long, or whose status is not pending or completed, is      *)
(* answered with status 400 and the name of the field, and with no other   *)
(* status.                                                                 *)
C21_Rejected400 ==
    ( \/ BadPayload(req)
      \/ req.op = "Create" /\ req.title.body = 0 )
    => /\ resp.status = 400
       /\ resp.detail \in {"title", "status"}

C28_DeletedStaysDeleted ==
    /\ \A d \in deleted : d.id \notin ids(tasks)
    /\ req.op \in {"List", "Get"}
          => \A i \in 1..Len(resp.body) :
                resp.body[i].id \notin {d.id : d \in deleted}

(* An update that loaded the row, lost it to a Delete, and then committed  *)
(* a changed status; and likewise a changed title.                         *)
C28_Witness ==
    /\ \E w \in Workers :
          /\ inflight[w].stage = "done"
          /\ inflight[w].title = NoTitle
          /\ inflight[w].status # inflight[w].task.status
          /\ inflight[w].task.id \in {d.id : d \in deleted}
    /\ \E w \in Workers :
          /\ inflight[w].stage = "done"
          /\ inflight[w].title # NoTitle
          /\ inflight[w].title # inflight[w].task.title
          /\ inflight[w].task.id \in {d.id : d \in deleted}
    /\ req.op = "List"

(* C23, as stated: whenever a request sent through the API client is       *)
(* answered with status 401, window.location is set to /login and the call *)
(* throws; the answer is never returned as data.                           *)
C23_RedirectOn401 ==
    ( /\ call.op = "apiRequest"
      /\ call.result.sent
      /\ call.reply.status = 401 )
    => /\ call.result.redirect
       /\ call.result.outcome = Throws

(* C24: every request apiRequest sends to a protected endpoint carries the *)
(* header Authorization: Bearer <token> with a non-empty token; when       *)
(* neither authClient.token() nor localStorage yields a token, apiRequest  *)
(* sets window.location to /login and throws without calling fetch.        *)
C24_BearerOrNothing ==
    (call.op = "apiRequest" /\ call.requireAuth) =>
       /\ call.result.sent
             => /\ Len(call.result.authorization) = 2
                /\ call.result.authorization[1] = "Bearer "
                /\ call.result.authorization[2] \notin {None, Empty}
       /\ ( /\ call.bt \in {Throws, None, Empty}
            /\ call.stored \in {None, Empty} )
             => /\ ~call.result.sent
                /\ call.result.redirect
                /\ call.result.outcome = Throws
                /\ browser.location = "/login"

(* A request sent with the token of localStorage after authClient.token() *)
(* rejected                                                                *)
C24_Witness ==
    /\ call.op = "apiRequest"
    /\ call.requireAuth
    /\ call.bt = Throws
    /\ call.stored = "t1"
    /\ call.result.sent
    /\ call.result.authorization = <<"Bearer ", "t1">>

(* C25, as stated: once logout() has completed, with authClient.signOut()  *)
(* having succeeded or not, localStorage holds neither token nor user, and *)
(* every later opening of the dashboard ends with requireAuth setting      *)
(* window.location to /login.                                             *)
C25_LoggedOutStaysOut ==
    browser.loggedOut =>
       /\ browser.token = None
       /\ browser.user = None
       /\ call.op = "requireAuth"
             => /\ call.result.redirect
                /\ browser.location = "/login"

(* C30, as stated: whenever localStorage holds a user and a token, both    *)
(* were written by the same sign-in or sign-up and the token is the one    *)
(* issued for that user; a sign-in or sign-up that throws leaves           *)
(* localStorage as it was.                                                 *)
C30_SameSignIn ==
    [][ /\ (browser'.token # None /\ browser'.user # None)
            => /\ browser'.sameCall
               /\ browser'.token = TokenOf(browser'.user)
        /\ (call'.op \in {"signIn", "signUp"} /\ call'.result.outcome = Throws)
            => /\ browser'.token = browser.token
               /\ browser'.user = browser.user ]_vars

(* A step within the life of one page: it is mounted before and after, and *)
(* the step is not a new mount (a reload).                                 *)
SamePage ==
    /\ dashboard.mounted
    /\ dashboard'.mounted
    /\ dashboard'.op # "DashboardPage"

Flipped(x) == IF x = "pending" THEN "completed" ELSE "pending"

(* The step that settles the status update of the toggled task *)
ToggleSettled ==
    /\ SamePage
    /\ dashboard'.op = "handleToggleTask_settled"
    /\ dashboard.updatingTaskId # NoId
    /\ dashboard'.updatingTaskId = NoId

(* Every task but the toggled one is listed after the step as before it *)
OthersUnchanged ==
    /\ Len(dashboard'.items) = Len(dashboard.items)
    /\ \A i \in 1..Len(dashboard.items) :
          dashboard.items[i].id # dashboard.updatingTaskId
             => dashboard'.items[i] = dashboard.items[i]

(* C26, as stated: when the status update of a toggled task fails, the     *)
(* list ends with that task showing the status it had before the toggle    *)
(* and every other task unchanged, whatever create or delete completed     *)
(* meanwhile; when it succeeds, the task shows the flipped status.         *)
C26_RolledBack ==
    [][ ToggleSettled =>
          /\ OthersUnchanged
          /\ \E i \in 1..Len(dashboard'.items) :
                /\ dashboard'.items[i].id = dashboard.updatingTaskId
                /\ dashboard'.items[i].status =
                      IF call'.result.outcome = Throws
                      THEN dashboard.currentStatus
                      ELSE Flipped(dashboard.currentStatus) ]_vars

(* C26, amended: the same for a toggled task that is still in the list     *)
(* when the request settles; a task whose delete request succeeded while   *)
(* the status update was in flight stays removed, and the list is left as  *)
(* it was.                                                                 *)
C26_RolledBackIfListed ==
    [][ ToggleSettled =>
          /\ OthersUnchanged
          /\ \A i \in 1..Len(dashboard.items) :
                dashboard.items[i].id = dashboard.updatingTaskId
                   => dashboard'.items[i] =
                         Item(dashboard.updatingTaskId,
                              IF call'.result.outcome = Throws
                              THEN dashboard.currentStatus
                              ELSE Flipped(dashboard.currentStatus))
          /\ dashboard.updatingTaskId \notin itemIds(dashboard.items)
                => dashboard'.items = dashboard.items ]_vars

(* A failed status update has been rolled back in a list of two tasks, one *)
(* of them created on this page, and the error is set                      *)
C26_Witness ==
    /\ dashboard.op = "handleToggleTask_settled"
    /\ call.result.outcome = Throws
    /\ dashboard.error # ""
    /\ dashboard.currentStatus = "completed"
    /\ dashboard.items = <<Item(2, "pending"), Item(1, "completed")>>

(* The handlers the form, the list and the dialog call *)
UserHandlers ==
    {"handleCreateTask", "handleToggleTask", "handleDeleteClick",
     "handleDeleteConfirm", "handleDeleteCancel"}

====
